---------------------------- MODULE Spec2Model ----------------------------
(***************************************************************************)
(* Model of the exceptional-point solver: ep/base.py (Base.solve_ODE and   *)
(* the stages it calls), ep/waveguide.py (the loop trajectory) and         *)
(* EP_Helpers.py (c_eig, c_trapz).                                         *)
(*                                                                         *)
(* Numbers.  A complex number is a record [re, im] of integers.            *)
(* Eigenvalues are counted in units of epsilon (1e-3), so epsilon is 1.    *)
(* Eigenvector components are Gaussian integers lying on an axis, so that  *)
(* np.angle is a whole number of quarter turns and the multiplication by   *)
(* exp(1j*phase) is exact.  Arrays keep the index order of the source:     *)
(* eVals[n][i], eVecs[n][j][i] with sample n, component j and branch i,    *)
(* all counted from 0.                                                     *)
(***************************************************************************)
EXTENDS Integers, Sequences, FiniteSets, TLC

\* number of time samples of the model (self.tN is T*5e2 in the source)
MaxN == 3

\* base.py:56  self.tN
tN == MaxN

\* base.py:59  self.dt, in half-units: one step is 2, so that the halves of
\* the trapezoidal rule are whole numbers
dt == 2

\* base.py:211  epsilon = 1e-3, the unit in which eigenvalues are counted
epsilon == 1

Samples  == 0 .. (tN - 1)
Branches == 0 .. 1
Comps    == 0 .. 1

---------------------------------------------------------------------------
(* complex arithmetic (numpy complex scalars)                              *)

C(a, b) == [re |-> a, im |-> b]
zero == C(0, 0)
one  == C(1, 0)
j1   == C(0, 1)

\* the value numpy gives for a division 0/0 or x/0
NaNC == [re |-> 0, im |-> 0, nan |-> TRUE]
IsNaN(z) == "nan" \in DOMAIN z

CAdd(z, w) == C(z.re + w.re, z.im + w.im)
CSub(z, w) == C(z.re - w.re, z.im - w.im)
CMul(z, w) == C(z.re * w.re - z.im * w.im, z.re * w.im + z.im * w.re)
CNeg(z)    == C(0 - z.re, 0 - z.im)
conj(z)    == C(z.re, 0 - z.im)
imag(z)    == z.im
real(z)    == z.re
\* abs(z)**2
Abs2(z)    == z.re * z.re + z.im * z.im

\* z / w.  The model's inputs make every quotient a Gaussian integer.
CDiv(z, w) ==
    IF w = zero THEN NaNC
    ELSE C((z.re * w.re + z.im * w.im) \div Abs2(w),
           (z.im * w.re - z.re * w.im) \div Abs2(w))

\* np.angle in quarter turns, for a number on an axis (np.angle(0) = 0)
angle(z) ==
    IF z.re > 0 THEN 0
    ELSE IF z.im > 0 THEN 1
    ELSE IF z.re < 0 THEN 2
    ELSE IF z.im < 0 THEN 3
    ELSE 0

\* np.exp(1j*phase) for a phase of q quarter turns
ExpI(q) ==
    LET r == q % 4
    IN  IF r = 0 THEN C(1, 0)
        ELSE IF r = 1 THEN C(0, 1)
        ELSE IF r = 2 THEN C(-1, 0)
        ELSE C(0, -1)

\* vl.dot(vr) for two vectors of length 2 (no conjugation)
dot(vl, vr) == CAdd(CMul(vl[0], vr[0]), CMul(vl[1], vr[1]))

Vec(a, b) == [j \in Comps |-> IF j = 0 THEN a ELSE b]
Zero2 == Vec(zero, zero)

\* column i of a 2x2 array m[j][i]
Col(m, i) == [j \in Comps |-> m[j][i]]
\* the 2x2 array with columns c0, c1
Cols(c0, c1) == [j \in Comps |-> [i \in Branches |-> IF i = 0 THEN c0[j] ELSE c1[j]]]


---------------------------------------------------------------------------
(* EP_Helpers.py                                                           *)

\* scipy.integrate.trapz(y, dx) of a sequence of integers: the sum of
\* dx*(y[i]+y[i+1])/2 (dx is even, so dx/2 is whole); 0 for fewer than two
\* samples
RECURSIVE trapzFrom(_, _, _)
trapzFrom(y, dx, i) ==
    IF i >= Len(y) THEN 0
    ELSE (dx \div 2) * (y[i] + y[i + 1]) + trapzFrom(y, dx, i + 1)

trapz(y, dx) == trapzFrom(y, dx, 1)

\* c_trapz(f, dx): real and imaginary part integrated apart and recombined
c_trapz(f, dx) ==
    LET real_int == trapz([k \in 1 .. Len(f) |-> real(f[k])], dx)
        imag_int == trapz([k \in 1 .. Len(f) |-> imag(f[k])], dx)
    IN  C(real_int, imag_int)

\* c_norm(ev_l, ev_r)**2 of c_eig: np.sqrt(ev_l.dot(ev_r)) squared again
c_norm2(ev_l, ev_r) == dot(ev_l, ev_r)

\* the left vector divided by the product with its own conjugate, the
\* Hermitian norm
c_eig_left_Hermitian(l, r) ==
    LET N2 == dot([j \in Comps |-> conj(l[j])], l)
    IN  [j \in Comps |-> CDiv(l[j], N2)]

\* eVecs_l[:,n] /= N**2
c_eig_left(l, r) ==
    LET N2 == c_norm2(l, r)
    IN  [j \in Comps |-> CDiv(l[j], N2)]

\* c_eig(H, left): raw is what scipy.linalg.eig(H, left=True) returned,
\* [w, vl, vr] with the eigenvectors as columns
c_eig(raw, left) ==
    LET eVecs_l == [j \in Comps |-> [i \in Branches |-> conj(raw.vl[j][i])]]
        l0 == c_eig_left(Col(eVecs_l, 0), Col(raw.vr, 0))
        l1 == c_eig_left(Col(eVecs_l, 1), Col(raw.vr, 1))
    IN  IF left
        THEN [eVals |-> raw.w, eVecs_l |-> Cols(l0, l1), eVecs_r |-> raw.vr]
        ELSE [eVals |-> raw.w, eVecs_r |-> raw.vr]

---------------------------------------------------------------------------
(* scipy.linalg.eig: the results the solver can return for the matrices    *)
(* H(t) of a run.  A matrix with eigenvalues lamA, lamB has, for a unit d, *)
(* the right eigenvectors (1, d), (1, 2d) and the left eigenvectors        *)
(* (2, -conj(d)), (-1, conj(d)): left_i . right_j is 1 for i = j and 0     *)
(* otherwise.  The solver returns the two pairs in either order, and the   *)
(* conjugated left eigenvectors with a scale of its own.                   *)

\* the eigenvalue pairs (lamA, lamB) of the matrices of a run
LamPairs == { <<C(0, 0), C(2, 0)>>, <<C(1, 0), C(2, 1)>> }
\* the units d
Units == { C(1, 0), C(0, 1) }
\* the scales of the raw left eigenvectors of pair A and pair B
ScaleA == C(2, 0)
ScaleB == C(0, 1)

RightA(d) == Vec(one, d)
RightB(d) == Vec(one, CMul(C(2, 0), d))
LeftA(d)  == Vec(C(2, 0), CNeg(conj(d)))
LeftB(d)  == Vec(C(-1, 0), conj(d))

\* scipy's vl: the conjugate of a multiple of the left (row) eigenvector
RawLeft(s, l) == [j \in Comps |-> conj(CMul(s, l[j]))]

eig(lam, d, swapped) ==
    LET wA  == lam[1]
        wB  == lam[2]
        vlA == RawLeft(ScaleA, LeftA(d))
        vlB == RawLeft(ScaleB, LeftB(d))
    IN  IF swapped
        THEN [w  |-> [i \in Branches |-> IF i = 0 THEN wB ELSE wA],
              vl |-> Cols(vlB, vlA), vr |-> Cols(RightB(d), RightA(d))]
        ELSE [w  |-> [i \in Branches |-> IF i = 0 THEN wA ELSE wB],
              vl |-> Cols(vlA, vlB), vr |-> Cols(RightA(d), RightB(d))]

EigOutputs == { eig(lam, d, sw) : lam \in LamPairs, d \in Units, sw \in BOOLEAN }

\* what the solver returns for a defective matrix, the Jordan block
\* [[0, 1], [0, 0]]: one eigenvalue twice, parallel right eigenvectors, and
\* left eigenvectors whose product with them is zero
eigDefective ==
    [w  |-> [i \in Branches |-> zero],
     vl |-> Cols(Vec(zero, one), Vec(zero, one)),
     vr |-> Cols(Vec(one, zero), Vec(C(-1, 0), zero))]

---------------------------------------------------------------------------
(* ep/waveguide.py: the loop trajectory.  Time is counted in quarter       *)
(* periods T/4, so w*t is a whole number of quarter turns, and lengths in  *)
(* units of 0.2.                                                           *)

LoopTypes == { "Circle", "Ellipse", "Varcircle", "Varcircle_phase", "Bell",
               "Constant", "Constant_delta" }

\* np.cos and np.sin of q quarter turns
cos(q) == LET r == q % 4 IN IF r = 0 THEN 1 ELSE IF r = 2 THEN -1 ELSE 0
sin(q) == LET r == q % 4 IN IF r = 1 THEN 1 ELSE IF r = 3 THEN -1 ELSE 0

\* base.py:62-64  w = 2*pi/T, negated for loop_direction '+': the quarter
\* turns made in one quarter period
w(c) == IF c.loop_direction = "+" THEN -1 ELSE 1

\* np.arccos(1 - phi0/R) in quarter turns: [nan, q].  Outside [-1, 1], and
\* for R = 0, numpy warns and returns nan; it does not raise.
arccos_arg(phi0, R) ==
    IF R = 0 THEN [nan |-> TRUE, q |-> 0]
    ELSE LET v == 1 - (phi0 \div R)
         IN  IF v = 1 THEN [nan |-> FALSE, q |-> 0]
             ELSE IF v = 0 THEN [nan |-> FALSE, q |-> 1]
             ELSE IF v = -1 THEN [nan |-> FALSE, q |-> 2]
             ELSE [nan |-> TRUE, q |-> 0]

Return(x, y) == [kind |-> "return", nan |-> FALSE, x |-> x, y |-> y]
ReturnNaN    == [kind |-> "return", nan |-> TRUE, x |-> 0, y |-> 0]
Raise(exc, msg) == [kind |-> "raise", exc |-> exc, names |-> msg]

\* the unknown loop_type taken for "Constant"
UnknownLoopType_Constant(c) == Return(c.x_EP, 0)

\* lines 149-151: raise Exception("Error: loop_type {} does not
\* exist!".format(loop_type))
UnknownLoopType(c) == Raise("Exception", c.loop_type)

\* Waveguide.get_cycle_parameters(t) for the configuration c
get_cycle_parameters(c, t) ==
    LET x_EP == c.x_EP
        x_R0 == c.x_EP
        y_EP == 0
        y_R0 == c.x_EP
        phi0 == c.init_phase
        wt   == w(c) * t
    IN  IF c.loop_type = "Circle"
        THEN Return(x_EP + x_R0 * cos(wt + phi0), y_EP + y_R0 * sin(wt + phi0))
        ELSE IF c.loop_type = "Ellipse"
        THEN Return(x_EP * (1 - cos(wt)), y_EP - 8 * x_EP * sin(wt) + phi0)
        ELSE IF c.loop_type = "Varcircle"
        THEN Return(x_EP * (1 - cos(wt)), y_EP - x_EP * sin(wt) + phi0)
        ELSE IF c.loop_type = "Varcircle_phase"
        THEN LET R     == x_EP
                 phase == arccos_arg(phi0, R)
             IN  IF phase.nan THEN ReturnNaN
                 ELSE Return(R * (1 - cos(wt + phase.q)) - phi0,
                             y_EP - R * sin(wt + phase.q))
        ELSE IF c.loop_type = "Bell"
        THEN LET sign == IF c.loop_direction = "+" THEN -1 ELSE 1
             IN  Return(x_EP * (1 - cos(wt)),
                        (2 * sign * (sign * wt - 2)) \div 2 + phi0)
        ELSE IF c.loop_type = "Constant"
        THEN Return(x_EP, y_EP)
        ELSE IF c.loop_type = "Constant_delta"
        THEN Return(x_EP * (1 - cos(wt)), y_EP)
        ELSE UnknownLoopType(c)

\* Waveguide.__init__, lines 32-40: the wavenumbers k(0), k(1), their
\* difference, eta and theta, for a number of modes N with k0 = 2*k1 and
\* theta = 0; wavenumbers and eta are counted in units of k1
k0 == 2
k1 == 1
kr == k0 - k1
eta == 2
theta_boundary == 0

\* an optional argument: None, or a value
NoneArg == [given |-> FALSE, val |-> 0]
Some(v) == [given |-> TRUE, val |-> v]

\* line 81: B = -1j*(exp(1j*theta) + 1)*kr/2*sqrt(k0/(2*k1)), where the
\* square root is 1 for k0 = 2*k1
B ==
    LET s == CAdd(ExpI(theta_boundary), one)
    IN  CMul(CNeg(j1), C((s.re * kr) \div 2, (s.im * kr) \div 2))

\* a coordinate that is nan makes every entry it enters nan
Times(z, eps) == IF IsNaN(eps) THEN NaNC ELSE CMul(z, eps)
Minus(z, delta) == IF IsNaN(delta) THEN NaNC ELSE CSub(z, delta)

\* lines 84-90: the matrix built from eps and delta (complex numbers)
HMatrix(eps, delta) ==
    LET H11 == C(0 - k0, 0 - (eta \div 2))
        H12 == Times(B, eps)
        H21 == Times(conj(B), eps)
        H22 == Minus(C(0 - k0, 0 - ((eta * k0) \div (2 * k1))), delta)
    IN  << << H11, H12 >>, << H21, H22 >> >>

\* the time kept as a coordinate when x and y are given
Waveguide_H_Coordinates_Timed(t, x, y) ==
    [kind |-> "return", H |-> HMatrix(C(x.val + t, 0), C(y.val, 0))]

\* lines 78-79: eps, delta = x, y
Waveguide_H_Coordinates(t, x, y) ==
    [kind |-> "return", H |-> HMatrix(C(x.val, 0), C(y.val, 0))]

\* Waveguide.H(t, x, y), lines 75-92.  With one of x, y left None the
\* arithmetic on None raises a TypeError.
Waveguide_H(c, t, x, y) ==
    IF ~x.given /\ ~y.given
    THEN LET xy == get_cycle_parameters(c, t)
         IN  IF xy.kind = "raise" THEN xy
             ELSE IF xy.nan
             THEN [kind |-> "return", H |-> HMatrix(NaNC, NaNC)]
             ELSE [kind |-> "return", H |-> HMatrix(C(xy.x, 0), C(xy.y, 0))]
    ELSE IF x.given /\ y.given
    THEN Waveguide_H_Coordinates(t, x, y)
    ELSE Raise("TypeError", "NoneType")

---------------------------------------------------------------------------
(* ep/base.py: the state of a run of solve_ODE                             *)

VARIABLES
    cfg,        \* the configuration: loop_type, loop_direction, init_state,
                \* init_phase, x_EP (set by __init__, never changed)
    pc,         \* the stage solve_ODE is at
    n,          \* the loop index of the stage
    loc,        \* the local arrays eVals, eVecs_r, eVecs_l of _get_c_eigensystem
    mask,       \* the swap indices still to correct (mask.nonzero()[0])
    raw,        \* the local arrays as the forward pass left them
    eVals,      \* self.eVals
    eVecs_r,    \* self.eVecs_r
    eVecs_l,    \* self.eVecs_l
    SE,         \* the integrator: y, t, successful(), number of integrate calls
    eVec0,      \* self.eVec0
    Psi,        \* self.Psi
    phi,        \* self.phi_a, self.phi_b and whether they are assigned
    err,        \* the exception that ended the run
    theta,      \* self.theta
    Psi_adiabatic,  \* self.Psi_adiabatic
    probe       \* a call of one function on its own, and its result

vars == << cfg, pc, n, loc, mask, raw, eVals, eVecs_r, eVecs_l, SE, eVec0,
           Psi, phi, err, theta, Psi_adiabatic, probe >>

\* np.zeros((tN,2)) and np.zeros((tN,2,2))
ZeroVals == [m \in Samples |-> [i \in Branches |-> zero]]
ZeroVecs == [m \in Samples |-> [j \in Comps |-> [i \in Branches |-> zero]]]
ZeroLoc  == [eVals |-> ZeroVals, eVecs_r |-> ZeroVecs, eVecs_l |-> ZeroVecs]

\* a state vector v/sqrt(norm2): the square root of the normalisation is
\* kept as a symbol
State(v, norm2) == [v |-> v, norm2 |-> norm2]
ZeroState == State(Zero2, 1)
ZeroPsi == [m \in Samples |-> ZeroState]

NoErr == [exc |-> "none", names |-> "none"]
NoPhi == [set |-> FALSE, a |-> <<>>, b |-> <<>>]
NoOut == [kind |-> "none"]
NoProbe == [fn |-> "none", t |-> 0, done |-> FALSE, out |-> NoOut]

InitStates == { "a", "b", "c", "d" }

\* the configurations of a run: every init_state on a circle, one selector
\* and one loop_type that do not exist, Varcircle_phase with an init_phase
\* outside the domain of the inverse cosine, and one run with
\* calc_adiabatic_state set
Config(lt, dir, is, ph, x) ==
    [loop_type |-> lt, loop_direction |-> dir, init_state |-> is,
     init_phase |-> ph, x_EP |-> x, calc_adiabatic_state |-> FALSE]

RunConfigs ==
    { Config("Circle", "-", is, 0, 1) : is \in InitStates \cup { "e" } }
    \cup { Config("Spiral", "-", "a", 0, 1),
           Config("Varcircle_phase", "-", "a", 3, 1),
           [Config("Circle", "-", "a", 0, 1)
                EXCEPT !.calc_adiabatic_state = TRUE] }

InitRun ==
    /\ cfg \in RunConfigs
    /\ pc = "eig"
    /\ n = 0
    /\ loc = ZeroLoc
    /\ mask = {}
    /\ raw = ZeroLoc
    /\ eVals = ZeroVals
    /\ eVecs_r = ZeroVecs
    /\ eVecs_l = ZeroVecs
    /\ SE = [y |-> ZeroState, t |-> 0, successful |-> TRUE, calls |-> 0, set |-> FALSE]
    /\ eVec0 = ZeroState
    /\ Psi = ZeroPsi
    /\ phi = NoPhi
    /\ err = NoErr
    /\ theta = ZeroVals
    /\ Psi_adiabatic = ZeroVals
    /\ probe = NoProbe

---------------------------------------------------------------------------
(* Base._get_c_eigensystem                                                 *)

\* self.H(tn) as the tracker and the integrator see it.  Base.H is left to
\* the inheriting class; of Waveguide.H the run keeps whether the call
\* returns a matrix, raises (get_cycle_parameters) or returns NaN entries,
\* which does not depend on t.  The matrix itself reaches the run through
\* the solver's result only.
H(c) ==
    LET xy == get_cycle_parameters(c, 0)
    IN  IF xy.kind = "raise" THEN xy
        ELSE IF xy.nan THEN [kind |-> "return", nan |-> TRUE]
        ELSE [kind |-> "return", nan |-> FALSE]

\* only the first sample stored
StoreSample_FirstOnly(l, m, r) ==
    IF m = 0
    THEN [eVals   |-> [l.eVals   EXCEPT ![m] = r.eVals],
          eVecs_r |-> [l.eVecs_r EXCEPT ![m] = r.eVecs_r],
          eVecs_l |-> [l.eVecs_l EXCEPT ![m] = r.eVecs_l]]
    ELSE l

\* lines 200-202, one pass of the loop: eVals[n,:], eVecs_l[n,:,:],
\* eVecs_r[n,:,:] = c_eig(self.H(tn), left=True).  scipy's eig refuses a
\* matrix with NaN entries (ValueError).
StoreSample(l, m, r) ==
    [eVals   |-> [l.eVals   EXCEPT ![m] = r.eVals],
     eVecs_r |-> [l.eVecs_r EXCEPT ![m] = r.eVecs_r],
     eVecs_l |-> [l.eVecs_l EXCEPT ![m] = r.eVecs_l]]

EigStep ==
    /\ pc = "eig"
    /\ n < tN
    /\ LET h == H(cfg)
       IN  IF h.kind = "raise"
           THEN /\ pc' = "error"
                /\ err' = [exc |-> h.exc, names |-> h.names]
                /\ UNCHANGED << n, loc >>
           ELSE IF h.nan
           THEN /\ pc' = "error"
                /\ err' = [exc |-> "ValueError", names |-> "none"]
                /\ UNCHANGED << n, loc >>
           ELSE /\ \E out \in EigOutputs :
                      loc' = StoreSample(loc, n, c_eig(out, TRUE))
                /\ n' = n + 1
                /\ pc' = IF n + 1 = tN THEN "detect" ELSE "eig"
                /\ UNCHANGED err
    /\ UNCHANGED << theta, Psi_adiabatic, cfg, mask, raw, eVals, eVecs_r, eVecs_l, SE, eVec0, Psi,
                    phi, probe >>

\* line 208: np.diff(eVals[:,0])
diff(e) == [k \in 0 .. (tN - 2) |-> CSub(e[k + 1][0], e[k][0])]

\* the indices where abs(diff) >= epsilon
SwapMask_NonStrict(e) ==
    { k \in 0 .. (tN - 2) : Abs2(diff(e)[k]) >= epsilon * epsilon }

\* lines 211-212, 216: the indices where abs(diff) > epsilon
SwapMask(e) ==
    { k \in 0 .. (tN - 2) : Abs2(diff(e)[k]) > epsilon * epsilon }

Detect ==
    /\ pc = "detect"
    /\ mask' = SwapMask(loc.eVals)
    /\ raw' = loc
    /\ pc' = "correct"
    /\ UNCHANGED << theta, Psi_adiabatic, cfg, n, loc, eVals, eVecs_r, eVecs_l, SE, eVec0, Psi, phi,
                    err, probe >>

\* the phases taken with the opposite sign, exp(-1j*phase)
PhaseAlign_Negated(v, k) ==
    LET phase_0 == [j \in Comps |-> angle(v[k][j][0]) - angle(v[k + 1][j][1])]
        phase_1 == [j \in Comps |-> angle(v[k + 1][j][0]) - angle(v[k][j][1])]
    IN  [m \in Samples |-> [j \in Comps |-> [i \in Branches |->
            IF i = 0 THEN v[m][j][0]
            ELSE IF m >= k + 1 THEN CMul(v[m][j][1], ExpI(0 - phase_0[j]))
            ELSE CMul(v[m][j][1], ExpI(0 - phase_1[j]))]]]

\* lines 218-232 for one of eVecs_r, eVecs_l: both phases are read before
\* either segment of branch 1 is multiplied
PhaseAlign(v, k) ==
    LET phase_0 == [j \in Comps |-> angle(v[k][j][0]) - angle(v[k + 1][j][1])]
        phase_1 == [j \in Comps |-> angle(v[k + 1][j][0]) - angle(v[k][j][1])]
    IN  [m \in Samples |-> [j \in Comps |-> [i \in Branches |->
            IF i = 0 THEN v[m][j][0]
            ELSE IF m >= k + 1 THEN CMul(v[m][j][1], ExpI(phase_0[j]))
            ELSE CMul(v[m][j][1], ExpI(phase_1[j]))]]]

\* the exchange starting one sample late
InterchangeVals_OffByOne(e, k) ==
    [m \in Samples |-> [i \in Branches |->
        IF m <= k + 1 THEN e[m][i] ELSE e[m][1 - i]]]

\* lines 234-238 for eVals: samples up to k keep their branches, the later
\* ones exchange them
InterchangeVals(e, k) ==
    [m \in Samples |-> [i \in Branches |->
        IF m <= k THEN e[m][i] ELSE e[m][1 - i]]]

\* lines 234-238 for eVecs_r, eVecs_l
InterchangeVecs(v, k) ==
    [m \in Samples |-> [j \in Comps |-> [i \in Branches |->
        IF m <= k THEN v[m][j][i] ELSE v[m][j][1 - i]]]]

\* lines 217-238: the body of the loop over the swap indices, for index k
CorrectSwap(l, k) ==
    [eVals   |-> InterchangeVals(l.eVals, k),
     eVecs_r |-> InterchangeVecs(PhaseAlign(l.eVecs_r, k), k),
     eVecs_l |-> InterchangeVecs(PhaseAlign(l.eVecs_l, k), k)]

SetMin(S) == CHOOSE k \in S : \A k2 \in S : k <= k2

\* line 216: the swap indices are taken in increasing order
Correct ==
    /\ pc = "correct"
    /\ mask # {}
    /\ LET k == SetMin(mask)
       IN  /\ loc' = CorrectSwap(loc, k)
           /\ mask' = mask \ { k }
    /\ UNCHANGED << theta, Psi_adiabatic, cfg, pc, n, raw, eVals, eVecs_r, eVecs_l, SE, eVec0, Psi,
                    phi, err, probe >>

\* lines 242-244: the corrected arrays become self.eVals, self.eVecs_l,
\* self.eVecs_r
Assign ==
    /\ pc = "correct"
    /\ mask = {}
    /\ eVals' = loc.eVals
    /\ eVecs_r' = loc.eVecs_r
    /\ eVecs_l' = loc.eVecs_l
    /\ loc' = ZeroLoc
    /\ pc' = "gain"
    /\ UNCHANGED << theta, Psi_adiabatic, cfg, n, mask, raw, SE, eVec0, Psi, phi, err, probe >>

---------------------------------------------------------------------------
(* Base._get_gain_state                                                    *)

\* self.eVals[:,i] as a sequence
BranchVals(e, i) == [k \in 1 .. tN |-> e[k - 1][i]]

\* lines 278-279
intE(e, i) == c_trapz(BranchVals(e, i), dt)

\* the real parts compared
GainTest_Real(e) == real(intE(e, 0)) < real(intE(e, 1))

\* the comparison not strict
GainTest_NonStrict(e) == imag(intE(e, 0)) <= imag(intE(e, 1))

\* line 283
GainTest(e) == imag(intE(e, 0)) < imag(intE(e, 1))

\* the eigenvectors left in place
ReverseVecs_Identity(v) == v

\* a[:, ::-1] and a[:, :, ::-1]
ReverseVals(e) == [m \in Samples |-> [i \in Branches |-> e[m][1 - i]]]
ReverseVecs(v) ==
    [m \in Samples |-> [j \in Comps |-> [i \in Branches |-> v[m][j][1 - i]]]]

\* lines 278-286 as a function of the three arrays
get_gain_state(t) ==
    IF GainTest(t.eVals)
    THEN [eVals   |-> ReverseVals(t.eVals),
          eVecs_r |-> ReverseVecs(t.eVecs_r),
          eVecs_l |-> ReverseVecs(t.eVecs_l)]
    ELSE t

Self == [eVals |-> eVals, eVecs_r |-> eVecs_r, eVecs_l |-> eVecs_l]

GainState ==
    /\ pc = "gain"
    /\ LET g == get_gain_state(Self)
       IN  /\ eVals' = g.eVals
           /\ eVecs_r' = g.eVecs_r
           /\ eVecs_l' = g.eVecs_l
    /\ pc' = "init"
    /\ UNCHANGED << theta, Psi_adiabatic, cfg, n, loc, mask, raw, SE, eVec0, Psi, phi, err, probe >>

---------------------------------------------------------------------------
(* Base._get_init_state and Base.solve_ODE                                 *)

VAdd(a, b) == [j \in Comps |-> CAdd(a[j], b[j])]
VScale(z, a) == [j \in Comps |-> CMul(z, a[j])]
VConj(a) == [j \in Comps |-> conj(a[j])]

\* norm(eVec0_r.conj(), eVec0_r)**2, a real number
HermNorm2(v) == real(dot(VConj(v), v))

\* every selector normalised, 'a' and 'b' too
get_init_state_Normalised(is, vr) ==
    LET v == IF is = "a" THEN Col(vr[0], 0)
             ELSE IF is = "b" THEN Col(vr[0], 1)
             ELSE IF is = "c" THEN VAdd(Col(vr[0], 0), Col(vr[0], 1))
             ELSE VAdd(Col(vr[0], 0), VScale(ExpI(2), Col(vr[0], 1)))
    IN  IF is \in { "a", "b", "c", "d" }
        THEN [kind |-> "return", val |-> State(v, HermNorm2(v))]
        ELSE Raise("UnboundLocalError", "eVec0_r")

\* lines 304-324: the vector returned, or the exception raised when no
\* branch of the if-chain binds eVec0_r
get_init_state(is, vr) ==
    IF is = "a" THEN [kind |-> "return", val |-> State(Col(vr[0], 0), 1)]
    ELSE IF is = "b" THEN [kind |-> "return", val |-> State(Col(vr[0], 1), 1)]
    ELSE IF is = "c"
    THEN LET v == VAdd(Col(vr[0], 0), Col(vr[0], 1))
         IN  [kind |-> "return", val |-> State(v, HermNorm2(v))]
    ELSE IF is = "d"
    THEN LET phase == ExpI(2)
             v == VAdd(Col(vr[0], 0), VScale(phase, Col(vr[0], 1)))
         IN  [kind |-> "return", val |-> State(v, HermNorm2(v))]
    ELSE Raise("UnboundLocalError", "eVec0_r")

\* the sum of 'c' and 'd' accumulated in place in self.eVecs_r[0,:,0]
init_state_eVecs_r_InPlace(is, vr) ==
    IF is \in { "c", "d" }
    THEN LET v == IF is = "c" THEN VAdd(Col(vr[0], 0), Col(vr[0], 1))
                  ELSE VAdd(Col(vr[0], 0), VScale(ExpI(2), Col(vr[0], 1)))
         IN  [vr EXCEPT ![0] = Cols(v, Col(vr[0], 1))]
    ELSE vr

\* self.eVecs_r when _get_init_state has returned.  For 'a' and 'b' the
\* result is a view of self.eVecs_r[0] that nothing writes to (lines
\* 304-308; set_initial_value and self.Psi[n,:] = SE.y copy); for 'c' and
\* 'd' the sum of lines 311, 320 is a new array and the division in place of
\* lines 316, 322 acts on that array.
init_state_eVecs_r(is, vr) == vr

\* lines 353-354: self.eVec0 = self._get_init_state();
\* SE.set_initial_value(self.eVec0, t=0.0)
InitState ==
    /\ pc = "init"
    /\ LET r == get_init_state(cfg.init_state, eVecs_r)
       IN  IF r.kind = "raise"
           THEN /\ pc' = "error"
                /\ err' = [exc |-> r.exc, names |-> r.names]
                /\ UNCHANGED << eVec0, SE, n >>
           ELSE /\ eVec0' = r.val
                /\ SE' = [SE EXCEPT !.y = r.val, !.t = 0, !.set = TRUE]
                /\ n' = 0
                /\ pc' = "ode"
                /\ UNCHANGED err
    /\ eVecs_r' = init_state_eVecs_r(cfg.init_state, eVecs_r)
    /\ UNCHANGED << theta, Psi_adiabatic, cfg, loc, mask, raw, eVals, eVecs_l,
                    Psi, phi, probe >>

\* SE.integrate(SE.t + dt): what the dopri5 integrator can leave behind, a new
\* state with successful() true, or a failed step
IntegrateResults(y) ==
    { [y |-> State(VScale(j1, y.v), y.norm2), successful |-> TRUE],
      [y |-> State(VScale(C(-1, 0), y.v), y.norm2), successful |-> TRUE],
      [y |-> y, successful |-> FALSE] }

\* the state written to every sample up to m
RecordState_UpTo(psi, m, y) == [k \in Samples |-> IF k <= m THEN y ELSE psi[k]]

\* line 359: self.Psi[n,:] = SE.y
RecordState(psi, m, y) == [psi EXCEPT ![m] = y]

\* np.exp(1j*z), kept as a symbol
Exp1j(z) == [exp1j |-> z]

\* Base._get_adiabatic_state(n), lines 260-262: self.theta[n,:], minus the
\* integral of self.eVals[:m,i] for both branches
get_adiabatic_state(e, m) ==
    [i \in Branches |-> CNeg(c_trapz([k \in 1 .. m |-> e[k - 1][i]], dt))]

\* lines 357-364, one pass of the loop
OdeStep ==
    /\ pc = "ode"
    /\ n < tN
    /\ IF SE.successful
       THEN /\ Psi' = RecordState(Psi, n, SE.y)
            /\ IF cfg.calc_adiabatic_state
               THEN LET th == get_adiabatic_state(eVals, n)
                    IN  /\ theta' = [theta EXCEPT ![n] = th]
                        /\ Psi_adiabatic' =
                              [Psi_adiabatic EXCEPT
                                  ![n] = [i \in Branches |-> Exp1j(th[i])]]
               ELSE UNCHANGED << theta, Psi_adiabatic >>
            /\ \E res \in IntegrateResults(SE.y) :
                  SE' = [SE EXCEPT !.y = res.y, !.t = SE.t + dt,
                                   !.successful = res.successful,
                                   !.calls = SE.calls + 1]
            /\ n' = n + 1
            /\ pc' = IF n + 1 = tN THEN "project" ELSE "ode"
            /\ UNCHANGED err
       ELSE /\ pc' = "error"
            /\ err' = [exc |-> "Exception", names |-> "ODE convergence error!"]
            /\ UNCHANGED << Psi, SE, n, theta, Psi_adiabatic >>
    /\ UNCHANGED << cfg, loc, mask, raw, eVals, eVecs_r, eVecs_l, eVec0, phi,
                    probe >>

\* the sum taken over the branch axis of eVecs_l, not the component axis
projection_Rows(vl, psi, m, i) ==
    [z |-> dot(vl[m][i], psi[m].v), norm2 |-> psi[m].norm2]

\* lines 367-368: np.einsum('ijk,ij -> ik', self.eVecs_l, self.Psi), the
\* amplitude z/sqrt(norm2) of branch i at sample m
projection(vl, psi, m, i) ==
    [z |-> dot(Col(vl[m], i), psi[m].v), norm2 |-> psi[m].norm2]

\* the projection made only if the last advance succeeded
Project_Checked ==
    /\ pc = "project"
    /\ IF SE.successful
       THEN /\ phi' = [set |-> TRUE,
                       a |-> [k \in 1 .. tN |-> projection(eVecs_l, Psi, k - 1, 0)],
                       b |-> [k \in 1 .. tN |-> projection(eVecs_l, Psi, k - 1, 1)]]
            /\ pc' = "done"
            /\ UNCHANGED err
       ELSE /\ pc' = "error"
            /\ err' = [exc |-> "Exception", names |-> "ODE convergence error!"]
            /\ UNCHANGED phi
    /\ UNCHANGED << theta, Psi_adiabatic, cfg, n, loc, mask, raw, eVals,
                    eVecs_r, eVecs_l, SE, eVec0, Psi, probe >>

\* lines 367-372
Project ==
    /\ pc = "project"
    /\ phi' = [set |-> TRUE,
               a |-> [k \in 1 .. tN |-> projection(eVecs_l, Psi, k - 1, 0)],
               b |-> [k \in 1 .. tN |-> projection(eVecs_l, Psi, k - 1, 1)]]
    /\ pc' = "done"
    /\ UNCHANGED << theta, Psi_adiabatic, cfg, n, loc, mask, raw, eVals, eVecs_r, eVecs_l, SE, eVec0,
                    Psi, err, probe >>

---------------------------------------------------------------------------
(* calls of get_cycle_parameters, Waveguide.H and c_eig on their own       *)

\* the largest x_EP and the latest time (in quarter periods) of these calls
MaxR == 2
MaxT == 4

\* init_phase is a multiple of x_EP, so that phi0/R is whole; a circle is
\* called with init_phase 0, the one angle that is 0 in any unit
ProbeConfigs ==
    { c \in { Config(lt, dir, "a", k * x, x) :
                lt \in LoopTypes \cup { "Spiral" }, dir \in { "-", "+" },
                x \in 0 .. MaxR, k \in -1 .. 3 } :
        c.loop_type = "Circle" => c.init_phase = 0 }

\* the calls of get_cycle_parameters(t)
CycleParameterCalls ==
    { [fn |-> "get_cycle_parameters", t |-> t, done |-> FALSE, out |-> NoOut] :
        t \in 0 .. MaxT }

\* the calls of H(t), H(t, x, y) and H with one coordinate left out
OptionalCoordinates == { NoneArg } \cup { Some(v) : v \in 0 .. 1 }
HCalls ==
    { [fn |-> "H", t |-> t, x |-> x, y |-> y, done |-> FALSE, out |-> NoOut] :
        t \in 0 .. MaxT, x \in OptionalCoordinates, y \in OptionalCoordinates }

\* the calls of c_eig: on the solver results of a run and on the result
\* for a defective matrix, with and without left=True
CEigCalls ==
    { [fn |-> "c_eig", t |-> 0, raw |-> r, left |-> l, done |-> FALSE,
       out |-> NoOut] : r \in EigOutputs \cup { eigDefective }, l \in BOOLEAN }

InitProbe ==
    /\ \/ /\ cfg \in ProbeConfigs
          /\ probe \in CycleParameterCalls \cup HCalls
       \/ /\ cfg = Config("Circle", "-", "a", 0, 1)
          /\ probe \in CEigCalls
    /\ pc = "probe"
    /\ n = 0
    /\ loc = ZeroLoc
    /\ mask = {}
    /\ raw = ZeroLoc
    /\ eVals = ZeroVals
    /\ eVecs_r = ZeroVecs
    /\ eVecs_l = ZeroVecs
    /\ SE = [y |-> ZeroState, t |-> 0, successful |-> TRUE, calls |-> 0, set |-> FALSE]
    /\ eVec0 = ZeroState
    /\ Psi = ZeroPsi
    /\ phi = NoPhi
    /\ err = NoErr
    /\ theta = ZeroVals
    /\ Psi_adiabatic = ZeroVals

CallCycleParameters ==
    /\ pc = "probe"
    /\ probe.fn = "get_cycle_parameters"
    /\ ~probe.done
    /\ probe' = [probe EXCEPT !.done = TRUE,
                              !.out = get_cycle_parameters(cfg, probe.t)]
    /\ UNCHANGED << theta, Psi_adiabatic, cfg, pc, n, loc, mask, raw, eVals, eVecs_r, eVecs_l, SE,
                    eVec0, Psi, phi, err >>

CallH ==
    /\ pc = "probe"
    /\ probe.fn = "H"
    /\ ~probe.done
    /\ probe' = [probe EXCEPT !.done = TRUE,
                              !.out = Waveguide_H(cfg, probe.t, probe.x, probe.y)]
    /\ UNCHANGED << theta, Psi_adiabatic, cfg, pc, n, loc, mask, raw, eVals, eVecs_r, eVecs_l, SE,
                    eVec0, Psi, phi, err >>

\* c_eig has no raise of its own: it returns what the division left
CallCEig ==
    /\ pc = "probe"
    /\ probe.fn = "c_eig"
    /\ ~probe.done
    /\ probe' = [probe EXCEPT !.done = TRUE,
                              !.out = [kind |-> "return",
                                       val |-> c_eig(probe.raw, probe.left)]]
    /\ UNCHANGED << theta, Psi_adiabatic, cfg, pc, n, loc, mask, raw, eVals, eVecs_r, eVecs_l, SE,
                    eVec0, Psi, phi, err >>

Init == InitRun \/ InitProbe

Next ==
    \/ EigStep
    \/ Detect
    \/ Correct
    \/ Assign
    \/ GainState
    \/ InitState
    \/ OdeStep
    \/ Project
    \/ CallCycleParameters
    \/ CallH
    \/ CallCEig

Spec == Init /\ [][Next]_vars

---------------------------------------------------------------------------
(* The claims                                                              *)

\* the raw solver output read as two true branches that the solver
\* exchanges after sample k
TrueA(k) == [m \in Samples |-> IF m <= k THEN raw.eVals[m][0] ELSE raw.eVals[m][1]]
TrueB(k) == [m \in Samples |-> IF m <= k THEN raw.eVals[m][1] ELSE raw.eVals[m][0]]
Smooth(f) ==
    \A m \in 0 .. (tN - 2) : Abs2(CSub(f[m + 1], f[m])) <= epsilon * epsilon
SmoothSwapAt(k) == Smooth(TrueA(k)) /\ Smooth(TrueB(k))
JumpAt(k) ==
    Abs2(CSub(raw.eVals[k + 1][0], raw.eVals[k][0])) > epsilon * epsilon
\* _get_c_eigensystem has returned and _get_gain_state has not run yet
Tracked == pc = "gain"
OutBranch(i) == [m \in Samples |-> eVals[m][i]]
Restored(k) ==
    /\ Smooth(OutBranch(0))
    /\ Smooth(OutBranch(1))
    /\ \/ OutBranch(0) = TrueA(k) /\ OutBranch(1) = TrueB(k)
       \/ OutBranch(0) = TrueB(k) /\ OutBranch(1) = TrueA(k)

\* C1 as stated: whenever the raw output is two smooth branches exchanged
\* after some sample k, the tracked eVals have no jump above epsilon and
\* each tracked branch is one of the two smooth branches throughout.
C1_Original ==
    Tracked => \A k \in 0 .. (tN - 2) : SmoothSwapAt(k) => Restored(k)

\* C1 amended: the same, for a swap that shows in branch 0 as a jump of more
\* than epsilon between the samples k and k+1.
C1_SwapRestored ==
    Tracked =>
        \A k \in 0 .. (tN - 2) : (SmoothSwapAt(k) /\ JumpAt(k)) => Restored(k)

C1_Witness ==
    /\ Tracked
    /\ \E k \in 0 .. (tN - 2) :
          /\ SmoothSwapAt(k)
          /\ JumpAt(k)
          /\ TrueA(k)[0] # TrueA(k)[tN - 1]

\* the imaginary part of the trapezoidal time-integral of branch i
RECURSIVE ImSum(_, _, _)
ImSum(e, i, m) ==
    IF m >= tN - 1 THEN 0
    ELSE (dt \div 2) * (e[m][i].im + e[m + 1][i].im) + ImSum(e, i, m + 1)
ImIntegral(e, i) == ImSum(e, i, 0)

\* a step of _get_gain_state
GainStep == pc = "gain" /\ pc' = "init"

BranchesReversed ==
    \A m \in Samples : \A i \in Branches :
        /\ eVals'[m][i] = eVals[m][1 - i]
        /\ \A j \in Comps :
              /\ eVecs_r'[m][j][i] = eVecs_r[m][j][1 - i]
              /\ eVecs_l'[m][j][i] = eVecs_l[m][j][1 - i]

PreSwapped ==
    [eVals   |-> [m \in Samples |-> [i \in Branches |-> eVals[m][1 - i]]],
     eVecs_r |-> [m \in Samples |-> [j \in Comps |-> [i \in Branches |->
                     eVecs_r[m][j][1 - i]]]],
     eVecs_l |-> [m \in Samples |-> [j \in Comps |-> [i \in Branches |->
                     eVecs_l[m][j][1 - i]]]]]

SameAsOnPreSwapped ==
    LET g == get_gain_state(PreSwapped)
    IN  /\ eVals' = g.eVals
        /\ eVecs_r' = g.eVecs_r
        /\ eVecs_l' = g.eVecs_l

\* C4 as stated: for every trajectory, what _get_gain_state leaves is what it
\* leaves on the same trajectory with the branches exchanged beforehand.
C4_Original == [][GainStep => SameAsOnPreSwapped]_vars

\* C4 amended: the same, for the trajectories whose two branch integrals
\* differ in their imaginary part.
C4_Canonical ==
    [][(GainStep /\ ImIntegral(eVals, 0) # ImIntegral(eVals, 1))
          => SameAsOnPreSwapped]_vars

\* the selector has run on a trajectory whose integrals differ and that
\* came in gain-first order
C4_Witness ==
    /\ pc = "init"
    /\ SwapMask(raw.eVals) = {}
    /\ ImIntegral(raw.eVals, 0) > ImIntegral(raw.eVals, 1)
    /\ eVals = raw.eVals

\* C5: with init_state 'a' the initial state is the branch-0 right
\* eigenvector of the finalized trajectory at sample 0, unmodified; with 'b'
\* the branch-1 one.
C5_InitStateVerbatim ==
    SE.set =>
        /\ cfg.init_state = "a" =>
              /\ \A j \in Comps : eVec0.v[j] = eVecs_r[0][j][0]
              /\ eVec0.norm2 = 1
        /\ cfg.init_state = "b" =>
              /\ \A j \in Comps : eVec0.v[j] = eVecs_r[0][j][1]
              /\ eVec0.norm2 = 1

\* a finished run with init_state 'b' whose tracker corrected a swap
C5_Witness ==
    /\ pc = "done"
    /\ cfg.init_state = "b"
    /\ SwapMask(raw.eVals) # {}

\* C6: with init_state 'a' a completed run returns phi_a[0] = 1 and
\* phi_b[0] = 0, for every trajectory.
C6_InitialAmplitudes ==
    (pc = "done" /\ cfg.init_state = "a") =>
        /\ phi.a[1] = [z |-> one, norm2 |-> 1]
        /\ phi.b[1] = [z |-> zero, norm2 |-> 1]

\* C7: once the integrator has reported a failed step the run aborts: it is
\* at the check of the loop or has raised the ODE-convergence error, and
\* phi_a, phi_b are not assigned.
C7_FailedStepAborts ==
    ~SE.successful =>
        /\ pc \in { "ode", "error" }
        /\ ~phi.set
        /\ pc = "error" =>
              err = [exc |-> "Exception", names |-> "ODE convergence error!"]

\* C8: for a loop_type that is none of the seven, get_cycle_parameters
\* raises an error naming the loop_type, and a run fails at its first use,
\* with no eigen sample and no state sample stored.
C8_UnknownLoopType ==
    /\ (probe.fn = "get_cycle_parameters" /\ probe.done
          /\ cfg.loop_type \notin LoopTypes) =>
          /\ probe.out.kind = "raise"
          /\ probe.out.names = cfg.loop_type
    /\ (pc # "probe" /\ cfg.loop_type \notin LoopTypes) =>
          /\ pc \in { "eig", "error" }
          /\ n = 0
          /\ loc = ZeroLoc
          /\ eVals = ZeroVals /\ eVecs_r = ZeroVecs /\ eVecs_l = ZeroVecs
          /\ Psi = ZeroPsi
          /\ ~SE.set
          /\ pc = "error" => err = [exc |-> "Exception", names |-> cfg.loop_type]

\* a run with an unknown loop_type after it failed
C8_Witness ==
    /\ pc = "error"
    /\ cfg.loop_type \notin LoopTypes
    /\ err.names = cfg.loop_type

\* C9: for an init_state outside a, b, c, d the run fails with an error
\* that names the selector, and the integrator gets no initial state.
C9_UnknownSelector ==
    (pc = "error" /\ cfg.loop_type \in LoopTypes
       /\ cfg.init_state \notin InitStates) =>
        /\ err.names = cfg.init_state
        /\ ~SE.set

\* |1 - phi0/R| <= 1, multiplied by |R|
Abs(x) == IF x < 0 THEN 0 - x ELSE x
InDomain(c) ==
    c.x_EP # 0 /\ Abs(c.x_EP - c.init_phase) <= Abs(c.x_EP)

\* C10: for Varcircle_phase with |1 - phi0/R| > 1, get_cycle_parameters
\* fails with a domain error instead of returning coordinates.
C10_DomainError ==
    (probe.fn = "get_cycle_parameters" /\ probe.done
       /\ cfg.loop_type = "Varcircle_phase" /\ ~InDomain(cfg)) =>
        probe.out.kind = "raise"

\* a finished call of c_eig, its argument and what it returned
CEigDone == probe.fn = "c_eig" /\ probe.done
\* the conjugated raw left eigenvector of pair i and its product with the
\* right eigenvector of the pair
RawLeftConj(i) == [j \in Comps |-> conj(probe.raw.vl[j][i])]
RawProduct(i) == dot(RawLeftConj(i), Col(probe.raw.vr, i))

\* C11: when the product left_i . right_i of a pair is zero, c_eig reports
\* a failure instead of returning left eigenvectors that hold NaN.
C11_ZeroProductReported ==
    (CEigDone /\ \E i \in Branches : RawProduct(i) = zero) =>
        probe.out.kind = "raise"

HDone == probe.fn = "H" /\ probe.done

\* C14: called with x and y, H returns the matrix of (x, y) whatever t is
\* and whatever the loop is (an unknown loop_type or an init_phase outside
\* the domain included); called with t alone, it returns the matrix of the
\* coordinates that get_cycle_parameters(t) returns.
C14_ExplicitCoordinates ==
    HDone =>
        /\ (probe.x.given /\ probe.y.given) =>
              /\ probe.out.kind = "return"
              /\ probe.out.H = HMatrix(C(probe.x.val, 0), C(probe.y.val, 0))
              /\ \A t2 \in 0 .. MaxT :
                    probe.out = Waveguide_H(cfg, t2, probe.x, probe.y)
        /\ (~probe.x.given /\ ~probe.y.given) =>
              LET xy == get_cycle_parameters(cfg, probe.t)
              IN  (xy.kind = "return" /\ ~xy.nan) =>
                      probe.out = Waveguide_H(cfg, probe.t, Some(xy.x), Some(xy.y))

\* H has returned for explicit coordinates, at a time after 0, on an
\* instance whose loop_type does not exist
C14_Witness ==
    /\ HDone
    /\ probe.x.given /\ probe.y.given
    /\ probe.x.val # probe.y.val
    /\ probe.t > 0
    /\ cfg.loop_type \notin LoopTypes
    /\ probe.out.kind = "return"

\* the returned amplitude of branch i at sample m
Amplitude(i, m) == IF i = 0 THEN phi.a[m + 1] ELSE phi.b[m + 1]

\* C13: after a completed run phi_a (branch 0) and phi_b (branch 1) hold,
\* at every sample n, the sum over the components j of
\* eVecs_l[n,j,i] * Psi[n,j], with the finalized eVecs_l and the state
\* recorded at the same sample.
C13_Projection ==
    pc = "done" =>
        /\ phi.set
        /\ Len(phi.a) = tN /\ Len(phi.b) = tN
        /\ \A m \in Samples : \A i \in Branches :
              /\ Amplitude(i, m).z =
                    CAdd(CMul(eVecs_l[m][0][i], Psi[m].v[0]),
                         CMul(eVecs_l[m][1][i], Psi[m].v[1]))
              /\ Amplitude(i, m).norm2 = Psi[m].norm2

\* a completed run whose tracker corrected a swap, whose branches differ
\* in gain and whose amplitudes differ between the branches
C13_Witness ==
    /\ pc = "done"
    /\ SwapMask(raw.eVals) # {}
    /\ ImIntegral(eVals, 0) > ImIntegral(eVals, 1)
    /\ \E m \in Samples : phi.a[m + 1] # phi.b[m + 1]

\* the indices where the raw branch-0 eigenvalue jumps by more than epsilon
RawSwaps ==
    { k \in 0 .. (tN - 2) :
        Abs2(CSub(raw.eVals[k + 1][0], raw.eVals[k][0])) > epsilon * epsilon }

\* C15: the swap set is fixed once, after the forward pass, as the indices
\* k with |eVals[k+1,0] - eVals[k,0]| > epsilon (strict) of the raw
\* branch 0; each correction only removes its index from it; when it is
\* empty the tracker hands out the raw solver output, whatever branch 1
\* does.
C15_SwapEvents ==
    [][/\ (pc = "detect" /\ pc' = "correct") =>
             /\ n = tN
             /\ loc' = loc
             /\ mask' = { k \in 0 .. (tN - 2) :
                            Abs2(CSub(loc.eVals[k + 1][0], loc.eVals[k][0]))
                                > epsilon * epsilon }
       /\ (pc = "correct" /\ pc' = "correct") =>
             /\ mask' # mask
             /\ mask' \subseteq mask
             /\ mask \subseteq RawSwaps
       /\ (pc = "correct" /\ pc' = "gain") =>
             /\ mask = {}
             /\ RawSwaps = {} =>
                   /\ eVals' = raw.eVals
                   /\ eVecs_r' = raw.eVecs_r
                   /\ eVecs_l' = raw.eVecs_l]_vars

\* the tracker has returned the raw output of a run whose branch 0 changes
\* by exactly epsilon at one step and whose branch 1 jumps by more
C15_Witness ==
    /\ Tracked
    /\ RawSwaps = {}
    /\ eVals = raw.eVals
    /\ \E k \in 0 .. (tN - 2) :
          Abs2(CSub(raw.eVals[k + 1][0], raw.eVals[k][0])) = epsilon * epsilon
    /\ \E k \in 0 .. (tN - 2) :
          Abs2(CSub(raw.eVals[k + 1][1], raw.eVals[k][1])) > epsilon * epsilon

\* the raw branch that the final branch i holds at sample m
RawBranch(m, i) == (i + Cardinality({ k \in RawSwaps : k < m })) % 2

\* v is the vector u times one phase factor
SamePhaseClass(v, u) == \E q \in 0 .. 3 : v = VScale(ExpI(q), u)

\* C16: with swap set S the final branch i at sample n holds the raw
\* branch (i + number of k in S below n) mod 2: its eigenvalue, and its
\* right and left eigenvector up to one phase factor each.
C16_SequentialInterchange ==
    Tracked =>
        \A m \in Samples : \A i \in Branches :
            /\ eVals[m][i] = raw.eVals[m][RawBranch(m, i)]
            /\ SamePhaseClass(Col(eVecs_r[m], i),
                              Col(raw.eVecs_r[m], RawBranch(m, i)))
            /\ SamePhaseClass(Col(eVecs_l[m], i),
                              Col(raw.eVecs_l[m], RawBranch(m, i)))

\* a correction of the swap at the first index of mask
CorrectStep == pc = "correct" /\ mask # {} /\ loc' # loc

\* for the array v of loc (eVecs_r or eVecs_l) and its value vNew after the
\* correction at k: branch 0 up to k and the old branch 0 after k are
\* kept, the old branch 1 is multiplied by a unit factor per component,
\* and the arguments agree across k in both new branches
AlignedAndInterchanged(v, vNew, k) ==
    \A j \in Comps :
        /\ \E q0, q1 \in 0 .. 3 :
              \A m \in Samples :
                  IF m <= k
                  THEN /\ vNew[m][j][0] = v[m][j][0]
                       /\ vNew[m][j][1] = CMul(v[m][j][1], ExpI(q1))
                  ELSE /\ vNew[m][j][1] = v[m][j][0]
                       /\ vNew[m][j][0] = CMul(v[m][j][1], ExpI(q0))
        /\ \A i \in Branches : angle(vNew[k + 1][j][i]) = angle(vNew[k][j][i])

AfterTracking == { "gain", "init", "ode", "project", "done" }
AfterSelection == { "init", "ode", "project", "done" }
AfterInitState == { "ode", "project", "done" }

\* C18: the stages of solve_ODE run in a fixed order.  Until the tracker
\* has stored all N samples nothing of the later stages exists; the
\* selector has ordered the branches before the initial state is built, and
\* the initial state is built from these branches; the integrator is
\* advanced only after it got its initial state; phi_a and phi_b are set
\* only after N states were recorded.
C18_StageOrder ==
    /\ pc \in { "eig", "detect", "correct" } =>
          /\ eVals = ZeroVals /\ eVecs_r = ZeroVecs /\ eVecs_l = ZeroVecs
          /\ ~SE.set /\ SE.calls = 0 /\ Psi = ZeroPsi /\ ~phi.set
    /\ pc \in AfterTracking =>
          \A m \in Samples : \A i \in Branches :
              /\ eVals[m][i] = raw.eVals[m][RawBranch(m, i)]
                    \/ eVals[m][i] = raw.eVals[m][1 - RawBranch(m, i)]
              /\ Col(eVecs_r[m], i) # Zero2
              /\ Col(eVecs_l[m], i) # Zero2
    /\ pc = "gain" => (~SE.set /\ SE.calls = 0 /\ Psi = ZeroPsi /\ ~phi.set)
    /\ pc = "init" => (~SE.set /\ SE.calls = 0 /\ Psi = ZeroPsi /\ ~phi.set)
    /\ pc \in AfterSelection =>
          ImIntegral(eVals, 0) >= ImIntegral(eVals, 1)
    /\ SE.set =>
          /\ pc \in AfterInitState \cup { "error" }
          /\ ImIntegral(eVals, 0) >= ImIntegral(eVals, 1)
          /\ eVec0 = get_init_state(cfg.init_state, eVecs_r).val
    /\ pc \in AfterInitState => SE.set
    /\ SE.calls > 0 => SE.set
    /\ pc = "ode" => (SE.calls = n /\ ~phi.set)
    /\ pc \in { "project", "done" } => (n = tN /\ SE.calls = tN)
    /\ phi.set => pc = "done"

\* a completed run: a swap corrected, the branches exchanged by the
\* selector, N advances of the integrator, the amplitudes set
C18_Witness ==
    /\ pc = "done"
    /\ phi.set
    /\ SE.calls = tN
    /\ RawSwaps # {}
    /\ \E m \in Samples : eVals[m][0] = raw.eVals[m][1 - RawBranch(m, 0)]

\* an advance of the integrator in the loop of solve_ODE
OdeAdvance == pc = "ode" /\ SE'.calls = SE.calls + 1

\* C19: an iteration n of the loop writes the state the integrator holds
\* before the advance to Psi[n], leaves every other Psi[m] alone and goes
\* on to n+1; iteration 0 writes the initial state; no other step writes
\* to Psi.
C19_PsiWrittenOnce ==
    [][/\ OdeAdvance =>
             /\ Psi'[n] = SE.y
             /\ \A m \in Samples \ { n } : Psi'[m] = Psi[m]
             /\ n' = n + 1
             /\ SE'.t = SE.t + dt
             /\ Psi'[0] = eVec0
       /\ ~OdeAdvance => Psi' = Psi]_vars

\* a completed run whose recorded states differ from sample to sample
C19_Witness ==
    /\ pc = "done"
    /\ Psi[0] = eVec0
    /\ \A m \in 1 .. (tN - 1) : Psi[m] # Psi[m - 1]

\* C20: with calc_adiabatic_state set, theta[m,i] of every recorded
\* sample m is minus the trapezoidal integral of eVals[0..m, i], sample m
\* included, and Psi_adiabatic[m,i] is exp(1j*theta[m,i]).
C20_AdiabaticPhase ==
    (cfg.calc_adiabatic_state /\ pc \in AfterInitState) =>
        \A m \in 0 .. (n - 1) : \A i \in Branches :
            /\ theta[m][i] =
                  CNeg(c_trapz([k \in 1 .. (m + 1) |-> eVals[k - 1][i]], dt))
            /\ Psi_adiabatic[m][i] = Exp1j(theta[m][i])

\* C21: from the end of _get_gain_state on, no step of the run changes
\* eVals, eVecs_r or eVecs_l: not _get_init_state, whatever the selector,
\* not an iteration of the integration loop, not the projection.
C21_EigenTrajectoryReadOnly ==
    [][(pc \in { "init", "ode", "project", "done", "error" }) =>
           (eVals' = eVals /\ eVecs_r' = eVecs_r /\ eVecs_l' = eVecs_l)]_vars

\* a completed run with init_state 'c', whose initial state is the
\* normalised sum of the two columns of eVecs_r[0], still as the selector
\* left them
C21_Witness ==
    /\ pc = "done"
    /\ cfg.init_state = "c"
    /\ eVec0.norm2 # 1
    /\ eVec0.v = VAdd(Col(eVecs_r[0], 0), Col(eVecs_r[0], 1))
    /\ Col(eVecs_r[0], 0) # eVec0.v

\* C22: a state is recorded and the integrator advanced only after
\* successful() was true, and a failed step found at the head of an
\* iteration ends the run with nothing more recorded; the loop advances the
\* integrator N times, the last time to N*dt, past T = (N-1)*dt, and what
\* this advance leaves is neither tested nor recorded: the projection
\* follows and the run ends at done also if it failed.
C22_LastAdvanceUnchecked ==
    [][/\ OdeAdvance => (SE.successful /\ Psi'[n] = SE.y)
       /\ (pc = "ode" /\ ~SE.successful) =>
             /\ n < tN
             /\ pc' = "error"
             /\ err' = [exc |-> "Exception", names |-> "ODE convergence error!"]
             /\ Psi' = Psi /\ SE' = SE /\ phi' = phi
       /\ pc = "project" =>
             /\ n = tN
             /\ SE.calls = tN
             /\ SE.t = tN * dt
             /\ pc' = "done"
             /\ phi'.set
             /\ Psi' = Psi /\ SE' = SE /\ err' = err]_vars

\* a run that ended with phi_a, phi_b set and no error although its last
\* advance failed
C22_Witness ==
    /\ pc = "done"
    /\ phi.set
    /\ err = NoErr
    /\ ~SE.successful
    /\ SE.calls = tN
    /\ SE.t > (tN - 1) * dt

============================================================================
